---- MODULE Spec2Model ----
(***************************************************************************)
(* The evolutionary cycle engine of simulation.py: run_evolutionary_cycle  *)
(* builds a population of agents (half Safe, half Risky), and for          *)
(* ROUNDS_PER_SIM rounds resets wealth, shuffles, pairs consecutive        *)
(* agents, pays every pair (audit, fine, liability), and runs the social   *)
(* learning step.  It returns the fraction of Safe agents.                 *)
(*                                                                         *)
(* Agents are objects: an agent is its identity (a number), the list       *)
(* `agents` holds references, and the fields live in `strategy` and        *)
(* `wealth`.  Probabilities and the values of random.random() are counted  *)
(* in tenths, so LEARNING_RATE (0.1) is 1 and probability 1 is ONE.        *)
(* Means are exact fractions [num, den].                                   *)
(***************************************************************************)
EXTENDS Integers, Sequences, FiniteSets

\* ------------------------------------------------------------- bounds
\* Largest POPULATION_SIZE the model enumerates (1000 in the source).
MaxPop == 4
\* Rounds of one cycle (50 in the source).
ROUNDS_PER_SIM == 2
\* Calls main() makes with one set of arguments (5 in the source).
SIMULATION_RUNS == 2

\* ---------------------------------------------------------- constants
PROFIT == 100
COST_SAFE == 20
LLC_FINE == 30
LLC_REPUTATION_LOSS == 10
PARTNERSHIP_FINE == 100
PARTNERSHIP_REPUTATION_LOSS == 100
\* 0.1, in tenths
LEARNING_RATE == 1
\* probability 1, in tenths
ONE == 10 * LEARNING_RATE

\* random.random() returns a value of [0, 1): tenths 0 .. 9
RandomValues == 0 .. (ONE - 1)

\* The inputs of a cycle.  main() passes audit probabilities of [0, 1], the
\* two (fine, reputation loss) settings and the two liability models.
ValidPopulationSizes == {n \in 1 .. MaxPop : n % 2 = 0}
AnyPopulationSizes == 1 .. MaxPop
ValidAuditProbs == {0, ONE \div 2, ONE}
AnyAuditProbs == ValidAuditProbs \cup {0 - 1, ONE + 1}
\* <<fine_amount, reputation_loss>>
PenaltySettings == {<<LLC_FINE, LLC_REPUTATION_LOSS>>,
                    <<PARTNERSHIP_FINE, PARTNERSHIP_REPUTATION_LOSS>>}
LiabilityModels == {"LLC", "Partnership"}

VARIABLES
    POPULATION_SIZE,   \* the configured population size
    audit_prob,        \* parameters of run_evolutionary_cycle
    fine_amount,
    reputation_loss,
    liability_model,
    pc,                \* position in run_evolutionary_cycle
    round,             \* completed iterations of the rounds loop
    agents,            \* the list of agents (identities), in list order
    strategy,          \* agent -> 1 (Safe) or 0 (Risky)
    wealth,            \* agent -> wealth
    pairs,             \* the pairs of this round, <<agent_A, agent_B>>
    pairIdx,           \* next pair of the payoff loop
    audits,            \* is_audited of the pairs paid so far in this round
    paid,              \* agent -> number of payoffs added in this round
    safe_agents,       \* the partition taken by the learning step
    risky_agents,
    avg_safe_wealth,
    avg_risky_wealth,
    learnIdx,          \* next draw of the learning loop
    result,            \* the returned fraction [num, den]
    twin,              \* a second cycle run side by side on the same
                       \* random stream (off unless a comparison is made)
    rng,               \* the module-level generator of `random`: the
                       \* stream it delivers and the position reached
    returned           \* the results main() has collected so far

vars == <<POPULATION_SIZE, audit_prob, fine_amount, reputation_loss,
          liability_model, pc, round, agents, strategy, wealth, pairs,
          pairIdx, audits, paid, safe_agents, risky_agents,
          avg_safe_wealth, avg_risky_wealth, learnIdx, result, twin, rng,
          returned>>

params == <<POPULATION_SIZE, audit_prob, fine_amount, reputation_loss,
            liability_model>>

\* ------------------------------------------------------------ helpers
Min(a, b) == IF a < b THEN a ELSE b
Max(a, b) == IF a > b THEN a ELSE b

Zero == [num |-> 0, den |-> 1]
NoResult == [num |-> 0 - 1, den |-> 1]

\* x > y for fractions with positive denominators
Greater(x, y) == x.num * y.den > y.num * x.den

\* ------------------------------------------------- population (50..54)
\* (mutant: the Risky half is never appended)
InitialAgentsSafeHalfOnly(n) == [k \in 1 .. (n \div 2) |-> k]

\* [Agent(1) for _ in range(N // 2)] + [Agent(0) for _ in range(N // 2)]
InitialAgents(n) == [k \in 1 .. ((n \div 2) + (n \div 2)) |-> k]

\* (mutant: < for <= in the split)
InitialStrategyOffByOne(n) ==
    [a \in 1 .. ((n \div 2) + (n \div 2)) |-> IF a < n \div 2 THEN 1 ELSE 0]

InitialStrategy(n) ==
    [a \in 1 .. ((n \div 2) + (n \div 2)) |-> IF a <= n \div 2 THEN 1 ELSE 0]

\* Agent.__init__: wealth = 0; also the reset of lines 59-60
ZeroWealth(ags) == [a \in {ags[k] : k \in 1 .. Len(ags)} |-> 0]

\* random.shuffle: the list in the order given by a permutation
Perms(n) == {p \in [1 .. n -> 1 .. n] : \A i, j \in 1 .. n : p[i] = p[j] => i = j}

Shuffled(ags, p) == [k \in 1 .. Len(ags) |-> ags[p[k]]]

\* ------------------------------------------------------ pairing (64)
\* ags[start::2], start 0 or 1
EveryOther(ags, start) ==
    [k \in 1 .. ((Len(ags) - start + 1) \div 2) |-> ags[start + 2 * k - 1]]

\* zip stops at the shorter list
Zip(xs, ys) == [k \in 1 .. Min(Len(xs), Len(ys)) |-> <<xs[k], ys[k]>>]

\* (mutant: overlapping pairs, zip(agents, agents[1:]))
MakePairsSliding(ags) == Zip(ags, SubSeq(ags, 2, Len(ags)))

MakePairs(ags) == Zip(EveryOther(ags, 0), EveryOther(ags, 1))

\* ------------------------------------------------------ payoffs (67..94)
\* (mutant: <= for <)
IsAuditedInclusive(u, prob) == u <= prob

IsAudited(u, prob) == u < prob

\* (mutant: the partner's penalty is never shared)
PayoffsNeverJoint(sA, sB, is_audited, fine, rep, model) ==
    LET baseA == IF sA = 1 THEN PROFIT - COST_SAFE ELSE PROFIT
        baseB == IF sB = 1 THEN PROFIT - COST_SAFE ELSE PROFIT
    IN  <<IF is_audited /\ sA = 0 THEN baseA - (fine + rep) ELSE baseA,
          IF is_audited /\ sB = 0 THEN baseB - (fine + rep) ELSE baseB>>

\* (mutant: B's defect logic is an elif of A's)
PayoffsSingleCross(sA, sB, is_audited, fine, rep, model) ==
    LET baseA == IF sA = 1 THEN PROFIT - COST_SAFE ELSE PROFIT
        baseB == IF sB = 1 THEN PROFIT - COST_SAFE ELSE PROFIT
        joint == IF model = "Partnership" THEN fine + rep ELSE 0
    IN  IF is_audited /\ sA = 0 THEN <<baseA - (fine + rep), baseB - joint>>
        ELSE IF is_audited /\ sB = 0 THEN <<baseA - joint, baseB - (fine + rep)>>
        ELSE <<baseA, baseB>>

\* (mutant: the liability model is not consulted, the penalty is always joint)
PayoffsAlwaysJoint(sA, sB, is_audited, fine, rep, model) ==
    LET baseA == IF sA = 1 THEN PROFIT - COST_SAFE ELSE PROFIT
        baseB == IF sB = 1 THEN PROFIT - COST_SAFE ELSE PROFIT
        penA == IF is_audited /\ sA = 0 THEN fine + rep ELSE 0
        penB == IF is_audited /\ sB = 0 THEN fine + rep ELSE 0
    IN  <<baseA - penA - penB, baseB - penB - penA>>

Payoffs(sA, sB, is_audited, fine, rep, model) ==
    LET baseA == IF sA = 1 THEN PROFIT - COST_SAFE ELSE PROFIT
        baseB == IF sB = 1 THEN PROFIT - COST_SAFE ELSE PROFIT
        \* Agent A Defect Logic
        a1 == IF is_audited /\ sA = 0 THEN baseA - (fine + rep) ELSE baseA
        b1 == IF is_audited /\ sA = 0 /\ model = "Partnership"
              THEN baseB - (fine + rep) ELSE baseB
        \* Agent B Defect Logic
        b2 == IF is_audited /\ sB = 0 THEN b1 - (fine + rep) ELSE b1
        a2 == IF is_audited /\ sB = 0 /\ model = "Partnership"
              THEN a1 - (fine + rep) ELSE a1
    IN  <<a2, b2>>

\* agent_A.wealth += payoff_A; agent_B.wealth += payoff_B
PlayPair(w, st, pair, is_audited, fine, rep, model) ==
    LET p == Payoffs(st[pair[1]], st[pair[2]], is_audited, fine, rep, model)
        w1 == [w EXCEPT ![pair[1]] = @ + p[1]]
    IN  [w1 EXCEPT ![pair[2]] = @ + p[2]]

\* ----------------------------------------------------- learning (96..112)
WithStrategy(ags, st, s) == SelectSeq(ags, LAMBDA a : st[a] = s)

RECURSIVE SumWealth(_, _)
SumWealth(list, w) ==
    IF list = <<>> THEN 0 ELSE w[Head(list)] + SumWealth(Tail(list), w)

\* (mutant: the empty list defaults to PROFIT)
MeanWealthEmptyIsProfit(list, w) ==
    IF Len(list) > 0 THEN [num |-> SumWealth(list, w), den |-> Len(list)]
    ELSE [num |-> PROFIT, den |-> 1]

\* np.mean(...) if the list is not empty else 0
MeanWealth(list, w) ==
    IF Len(list) > 0 THEN [num |-> SumWealth(list, w), den |-> Len(list)]
    ELSE Zero

\* (mutant: the elif is an else, a tie moves Risky agents)
LearnersTieToSafe(avgSafe, avgRisky, safe, risky) ==
    IF Greater(avgRisky, avgSafe) THEN safe ELSE risky

\* the list the learning loop iterates over, and the strategy it assigns
Learners(avgSafe, avgRisky, safe, risky) ==
    IF Greater(avgRisky, avgSafe) THEN safe
    ELSE IF Greater(avgSafe, avgRisky) THEN risky
    ELSE <<>>

Adopted(avgSafe, avgRisky) == IF Greater(avgRisky, avgSafe) THEN 0 ELSE 1

\* one iteration: if random.random() < LEARNING_RATE: agent.strategy = ...
LearnOne(st, learners, k, u, s) ==
    IF k <= Len(learners) /\ u < LEARNING_RATE
    THEN [st EXCEPT ![learners[k]] = s]
    ELSE st

\* ------------------------------------------------------- result (115)
RECURSIVE SumStrategy(_, _)
SumStrategy(list, st) ==
    IF list = <<>> THEN 0 ELSE st[Head(list)] + SumStrategy(Tail(list), st)

\* (mutant: divides by the length of the list less one)
FractionOffByOne(ags, st, n) == [num |-> SumStrategy(ags, st), den |-> n - 1]

Fraction(ags, st, n) == [num |-> SumStrategy(ags, st), den |-> n]

\* ---------------------------------------------------------- the twin
NoTwin ==
    [on |-> FALSE, liability_model |-> "", fine_amount |-> 0,
     reputation_loss |-> 0, agents |-> <<>>, strategy |-> <<>>,
     wealth |-> <<>>, pairs |-> <<>>, safe_agents |-> <<>>,
     risky_agents |-> <<>>, avg_safe_wealth |-> Zero,
     avg_risky_wealth |-> Zero, result |-> NoResult]

NewTwin(model, fine, rep) ==
    [NoTwin EXCEPT !.on = TRUE, !.liability_model = model,
                   !.fine_amount = fine, !.reputation_loss = rep]

TwinLearners ==
    Learners(twin.avg_safe_wealth, twin.avg_risky_wealth,
             twin.safe_agents, twin.risky_agents)

\* ------------------------------------------------- the generator (3..8)
\* One entry of the stream is what one call consumes: random.shuffle a
\* permutation, random.random() a value.
ShuffleDraw(p) == [p |-> p, u |-> 0 - 1]
ValueDraw(u) == [p |-> <<>>, u |-> u]

\* the stream of a cycle whose draws are not followed
AnyStream == [seeded |-> FALSE, tape |-> <<>>, pos |-> 0]
\* random.seed(42) at import: one fixed stream, read from its start
SeededStream == [seeded |-> TRUE, tape |-> <<>>, pos |-> 0]
\* the values a followed stream delivers: the least and the greatest
StreamValues == {0, ONE - 1}

\* the generator delivers e at its position: what the stream holds there,
\* and the stream is fixed once read
Feeds(e) ==
    rng.seeded =>
        IF rng.pos < Len(rng.tape) THEN e = rng.tape[rng.pos + 1]
        ELSE e.u = 0 - 1 \/ e.u \in StreamValues

\* the generator after delivering e: its position has moved on
Drawn(e) ==
    IF rng.seeded
    THEN [tape |-> IF rng.pos < Len(rng.tape) THEN rng.tape
                   ELSE Append(rng.tape, e),
          pos |-> rng.pos + 1, seeded |-> TRUE]
    ELSE rng

\* -------------------------------------------------------------- Init
InitRun ==
    /\ pc = "entry"
    /\ round = 0
    /\ agents = <<>>
    /\ strategy = <<>>
    /\ wealth = <<>>
    /\ pairs = <<>>
    /\ pairIdx = 1
    /\ audits = <<>>
    /\ paid = <<>>
    /\ safe_agents = <<>>
    /\ risky_agents = <<>>
    /\ avg_safe_wealth = Zero
    /\ avg_risky_wealth = Zero
    /\ learnIdx = 1
    /\ result = NoResult

InitParams(sizes, probs) ==
    /\ POPULATION_SIZE \in sizes
    /\ audit_prob \in probs
    /\ \E ps \in PenaltySettings :
          /\ fine_amount = ps[1]
          /\ reputation_loss = ps[2]
    /\ liability_model \in LiabilityModels

\* a call with the inputs main() passes and an even population
Init ==
    /\ InitParams(ValidPopulationSizes, ValidAuditProbs)
    /\ InitRun
    /\ twin = NoTwin
    /\ rng = AnyStream
    /\ returned = <<>>

\* a call with any configuration, valid or not
InitAny ==
    /\ InitParams(AnyPopulationSizes, AnyAuditProbs)
    /\ InitRun
    /\ twin = NoTwin
    /\ rng = AnyStream
    /\ returned = <<>>

\* the LLC cycle and the Partnership cycle of main(), side by side on one
\* random stream, Partnership with the larger total penalty
InitRegimes ==
    /\ POPULATION_SIZE \in ValidPopulationSizes
    /\ audit_prob \in ValidAuditProbs
    /\ fine_amount = LLC_FINE
    /\ reputation_loss = LLC_REPUTATION_LOSS
    /\ liability_model = "LLC"
    /\ InitRun
    /\ twin = NewTwin("Partnership", PARTNERSHIP_FINE,
                      PARTNERSHIP_REPUTATION_LOSS)
    /\ rng = AnyStream
    /\ returned = <<>>

\* main(): the module is imported (the generator seeded once), then the
\* LLC cycle is called SIMULATION_RUNS times with the same arguments
InitInvocations ==
    /\ POPULATION_SIZE = 2
    /\ audit_prob = ONE \div 2
    /\ fine_amount = LLC_FINE
    /\ reputation_loss = LLC_REPUTATION_LOSS
    /\ liability_model = "LLC"
    /\ InitRun
    /\ twin = NoTwin
    /\ rng = SeededStream
    /\ returned = <<>>

\* the two calls main() makes at the last point of its sweep (every pair
\* audited): LLC with the LLC penalty, Partnership with its own
InitMainCalls ==
    /\ POPULATION_SIZE \in ValidPopulationSizes
    /\ audit_prob = ONE
    /\ \/ /\ liability_model = "LLC"
          /\ fine_amount = LLC_FINE
          /\ reputation_loss = LLC_REPUTATION_LOSS
       \/ /\ liability_model = "Partnership"
          /\ fine_amount = PARTNERSHIP_FINE
          /\ reputation_loss = PARTNERSHIP_REPUTATION_LOSS
    /\ InitRun
    /\ twin = NoTwin
    /\ rng = AnyStream
    /\ returned = <<>>

\* ------------------------------------------------------------ actions
\* lines 50-54: build the population and shuffle it
Initialize ==
    /\ pc = "entry"
    /\ \E p \in Perms(Len(InitialAgents(POPULATION_SIZE))) :
          /\ Feeds(ShuffleDraw(p))
          /\ rng' = Drawn(ShuffleDraw(p))
          /\ agents' = Shuffled(InitialAgents(POPULATION_SIZE), p)
          /\ twin' = IF twin.on
                     THEN [twin EXCEPT
                            !.agents = Shuffled(InitialAgents(POPULATION_SIZE), p),
                            !.strategy = InitialStrategy(POPULATION_SIZE),
                            !.wealth = ZeroWealth(InitialAgents(POPULATION_SIZE))]
                     ELSE twin
    /\ strategy' = InitialStrategy(POPULATION_SIZE)
    /\ wealth' = ZeroWealth(InitialAgents(POPULATION_SIZE))
    /\ paid' = ZeroWealth(InitialAgents(POPULATION_SIZE))
    /\ pc' = IF round < ROUNDS_PER_SIM THEN "reset" ELSE "return"
    /\ UNCHANGED <<params, returned, round, pairs, pairIdx, audits, safe_agents,
                   risky_agents, avg_safe_wealth, avg_risky_wealth,
                   learnIdx, result>>

\* (mutant: the reset is missing, wealth accumulates)
ResetWealthSkipped ==
    /\ pc = "reset"
    /\ paid' = ZeroWealth(agents)
    /\ pc' = "shuffle"
    /\ UNCHANGED <<params, returned, rng, round, agents, strategy, wealth, pairs, pairIdx,
                   audits, safe_agents, risky_agents, avg_safe_wealth,
                   avg_risky_wealth, learnIdx, result, twin>>

\* lines 58-60: reset wealth each round
ResetWealth ==
    /\ pc = "reset"
    /\ wealth' = ZeroWealth(agents)
    /\ paid' = ZeroWealth(agents)
    /\ twin' = IF twin.on
               THEN [twin EXCEPT !.wealth = ZeroWealth(twin.agents)]
               ELSE twin
    /\ pc' = "shuffle"
    /\ UNCHANGED <<params, returned, rng, round, agents, strategy, pairs, pairIdx, audits,
                   safe_agents, risky_agents, avg_safe_wealth,
                   avg_risky_wealth, learnIdx, result>>

\* (mutant: the shuffle deals the strategies around, not the agents)
ShuffleAndPairDealsStrategies ==
    /\ pc = "shuffle"
    /\ \E p \in Perms(Len(agents)) :
          strategy' = [a \in DOMAIN strategy |-> strategy[p[a]]]
    /\ pairs' = MakePairs(agents)
    /\ pairIdx' = 1
    /\ audits' = <<>>
    /\ pc' = "play"
    /\ UNCHANGED <<params, returned, rng, round, agents, wealth, paid, safe_agents,
                   risky_agents, avg_safe_wealth, avg_risky_wealth,
                   learnIdx, result, twin>>

\* lines 63-64: shuffle, then pair consecutive agents
ShuffleAndPair ==
    /\ pc = "shuffle"
    /\ \E p \in Perms(Len(agents)) :
          /\ Feeds(ShuffleDraw(p))
          /\ rng' = Drawn(ShuffleDraw(p))
          /\ agents' = Shuffled(agents, p)
          /\ pairs' = MakePairs(Shuffled(agents, p))
          /\ twin' = IF twin.on
                     THEN [twin EXCEPT
                            !.agents = Shuffled(twin.agents, p),
                            !.pairs = MakePairs(Shuffled(twin.agents, p))]
                     ELSE twin
    /\ pairIdx' = 1
    /\ audits' = <<>>
    /\ pc' = "play"
    /\ UNCHANGED <<params, returned, round, strategy, wealth, paid, safe_agents,
                   risky_agents, avg_safe_wealth, avg_risky_wealth,
                   learnIdx, result>>

\* lines 66-94: one iteration of the payoff loop
Play ==
    /\ pc = "play"
    /\ pairIdx <= Len(pairs)
    /\ \E u \in RandomValues :
          LET is_audited == IsAudited(u, audit_prob) IN
          /\ Feeds(ValueDraw(u))
          /\ rng' = Drawn(ValueDraw(u))
          /\ wealth' = PlayPair(wealth, strategy, pairs[pairIdx], is_audited,
                                fine_amount, reputation_loss, liability_model)
          /\ audits' = Append(audits, is_audited)
          /\ twin' = IF twin.on
                     THEN [twin EXCEPT
                            !.wealth = PlayPair(twin.wealth, twin.strategy,
                                                twin.pairs[pairIdx], is_audited,
                                                twin.fine_amount,
                                                twin.reputation_loss,
                                                twin.liability_model)]
                     ELSE twin
    /\ paid' = [paid EXCEPT ![pairs[pairIdx][1]] = @ + 1,
                            ![pairs[pairIdx][2]] = @ + 1]
    /\ pairIdx' = pairIdx + 1
    /\ UNCHANGED <<params, returned, pc, round, agents, strategy, pairs, safe_agents,
                   risky_agents, avg_safe_wealth, avg_risky_wealth,
                   learnIdx, result>>

\* (mutant: the learning step is inside the payoff loop)
EvolveInsideLoop ==
    /\ pc = "play"
    /\ pairIdx > 1
    /\ safe_agents' = WithStrategy(agents, strategy, 1)
    /\ risky_agents' = WithStrategy(agents, strategy, 0)
    /\ avg_safe_wealth' = MeanWealth(WithStrategy(agents, strategy, 1), wealth)
    /\ avg_risky_wealth' = MeanWealth(WithStrategy(agents, strategy, 0), wealth)
    /\ learnIdx' = 1
    /\ pc' = "learn"
    /\ UNCHANGED <<params, returned, rng, round, agents, strategy, wealth, pairs, pairIdx,
                   audits, paid, result, twin>>

\* lines 97-101: partition by strategy and take the two means
Evolve ==
    /\ pc = "play"
    /\ pairIdx > Len(pairs)
    /\ safe_agents' = WithStrategy(agents, strategy, 1)
    /\ risky_agents' = WithStrategy(agents, strategy, 0)
    /\ avg_safe_wealth' = MeanWealth(WithStrategy(agents, strategy, 1), wealth)
    /\ avg_risky_wealth' = MeanWealth(WithStrategy(agents, strategy, 0), wealth)
    /\ twin' = IF twin.on
               THEN [twin EXCEPT
                      !.safe_agents = WithStrategy(twin.agents, twin.strategy, 1),
                      !.risky_agents = WithStrategy(twin.agents, twin.strategy, 0),
                      !.avg_safe_wealth =
                          MeanWealth(WithStrategy(twin.agents, twin.strategy, 1),
                                     twin.wealth),
                      !.avg_risky_wealth =
                          MeanWealth(WithStrategy(twin.agents, twin.strategy, 0),
                                     twin.wealth)]
               ELSE twin
    /\ learnIdx' = 1
    /\ pc' = "learn"
    /\ UNCHANGED <<params, returned, rng, round, agents, strategy, wealth, pairs, pairIdx,
                   audits, paid, result>>

PendingDraws ==
    Max(Len(Learners(avg_safe_wealth, avg_risky_wealth, safe_agents,
                     risky_agents)),
        IF twin.on THEN Len(TwinLearners) ELSE 0)

\* lines 103-112: one iteration of the learning loop (one draw)
Learn ==
    /\ pc = "learn"
    /\ learnIdx <= PendingDraws
    /\ \E u \in RandomValues :
          /\ Feeds(ValueDraw(u))
          /\ rng' = Drawn(ValueDraw(u))
          /\ strategy' = LearnOne(strategy,
                                  Learners(avg_safe_wealth, avg_risky_wealth,
                                           safe_agents, risky_agents),
                                  learnIdx, u,
                                  Adopted(avg_safe_wealth, avg_risky_wealth))
          /\ twin' = IF twin.on
                     THEN [twin EXCEPT
                            !.strategy =
                                LearnOne(twin.strategy, TwinLearners, learnIdx, u,
                                         Adopted(twin.avg_safe_wealth,
                                                 twin.avg_risky_wealth))]
                     ELSE twin
    /\ learnIdx' = learnIdx + 1
    /\ UNCHANGED <<params, returned, pc, round, agents, wealth, pairs, pairIdx, audits,
                   paid, safe_agents, risky_agents, avg_safe_wealth,
                   avg_risky_wealth, result>>

\* (mutant: a convergence check leaves the loop once all agents agree)
EndRoundOrConverged ==
    /\ pc = "learn"
    /\ learnIdx > PendingDraws
    /\ round' = round + 1
    /\ pc' = IF round + 1 < ROUNDS_PER_SIM
                /\ WithStrategy(agents, strategy, 1) # <<>>
                /\ WithStrategy(agents, strategy, 0) # <<>>
             THEN "reset" ELSE "return"
    /\ UNCHANGED <<params, returned, rng, agents, strategy, wealth, pairs, pairIdx, audits,
                   paid, safe_agents, risky_agents, avg_safe_wealth,
                   avg_risky_wealth, learnIdx, result, twin>>

\* line 57: the round is over; next iteration or leave the loop
EndRound ==
    /\ pc = "learn"
    /\ learnIdx > PendingDraws
    /\ round' = round + 1
    /\ pc' = IF round + 1 < ROUNDS_PER_SIM THEN "reset" ELSE "return"
    /\ UNCHANGED <<params, returned, rng, agents, strategy, wealth, pairs, pairIdx, audits,
                   paid, safe_agents, risky_agents, avg_safe_wealth,
                   avg_risky_wealth, learnIdx, result, twin>>

\* line 115: return sum(a.strategy for a in agents) / POPULATION_SIZE
Return ==
    /\ pc = "return"
    /\ result' = Fraction(agents, strategy, POPULATION_SIZE)
    /\ twin' = IF twin.on
               THEN [twin EXCEPT
                      !.result = Fraction(twin.agents, twin.strategy,
                                          POPULATION_SIZE)]
               ELSE twin
    /\ pc' = "done"
    /\ UNCHANGED <<params, returned, rng, round, agents, strategy, wealth, pairs, pairIdx,
                   audits, paid, safe_agents, risky_agents, avg_safe_wealth,
                   avg_risky_wealth, learnIdx>>

Next ==
    \/ Initialize
    \/ ResetWealth
    \/ ShuffleAndPair
    \/ Play
    \/ Evolve
    \/ Learn
    \/ EndRound
    \/ Return

\* lines 133-141: main() keeps the returned value and calls the cycle again
Invoke ==
    /\ pc = "done"
    /\ Len(returned) + 1 < SIMULATION_RUNS
    /\ returned' = Append(returned, result)
    /\ pc' = "entry"
    /\ round' = 0
    /\ agents' = <<>>
    /\ strategy' = <<>>
    /\ wealth' = <<>>
    /\ pairs' = <<>>
    /\ pairIdx' = 1
    /\ audits' = <<>>
    /\ paid' = <<>>
    /\ safe_agents' = <<>>
    /\ risky_agents' = <<>>
    /\ avg_safe_wealth' = Zero
    /\ avg_risky_wealth' = Zero
    /\ learnIdx' = 1
    /\ result' = NoResult
    /\ UNCHANGED <<params, rng, twin>>

NextMain ==
    \/ Next
    \/ Invoke

Spec == Init /\ [][Next]_vars
SpecAnyConfig == InitAny /\ [][Next]_vars
SpecRegimes == InitRegimes /\ [][Next]_vars
SpecInvocations == InitInvocations /\ [][NextMain]_vars

\* The cycle is straight-line synchronous code: a step that can be taken
\* is taken.
FairSpec == InitMainCalls /\ [][Next]_vars /\ WF_vars(Next)

\* ----------------------------------------------------------- measures
SafeCount == Len(WithStrategy(agents, strategy, 1))
RiskyCount == Len(WithStrategy(agents, strategy, 0))
AgentSet == {agents[k] : k \in 1 .. Len(agents)}
Penalty == fine_amount + reputation_loss
PaidPairs == 1 .. (pairIdx - 1)

\* ------------------------------------------------------------- claims

\* C1  Liability asymmetry: in an audited pair (A Risky, B Safe), A's round
\* payoff is PROFIT - (fine + reputation loss) under both models; B's is
\* PROFIT - COST_SAFE under the individual model and PROFIT - COST_SAFE -
\* (fine + reputation loss) under Partnership.
LiabilityAsymmetry ==
    pc = "play" =>
        \A k \in PaidPairs :
            (audits[k] /\ strategy[pairs[k][1]] = 0 /\ strategy[pairs[k][2]] = 1)
            => /\ wealth[pairs[k][1]] = PROFIT - Penalty
               /\ wealth[pairs[k][2]] =
                      IF liability_model = "Partnership"
                      THEN PROFIT - COST_SAFE - Penalty
                      ELSE PROFIT - COST_SAFE

AuditedRiskySafePair(model) ==
    /\ pc = "play"
    /\ liability_model = model
    /\ \E k \in PaidPairs :
          audits[k] /\ strategy[pairs[k][1]] = 0 /\ strategy[pairs[k][2]] = 1

LiabilityAsymmetryWitness == AuditedRiskySafePair("Partnership")

\* C2  Empty-subpopulation guard: when the learning step starts with every
\* agent on one strategy, it switches no agent: the partition by strategy
\* stays what it was when the step started.
EmptySubpopulationNoSwitch ==
    (pc = "learn" /\ (safe_agents = <<>> \/ risky_agents = <<>>))
    => /\ WithStrategy(agents, strategy, 1) = safe_agents
       /\ WithStrategy(agents, strategy, 0) = risky_agents

\* C3  Pairing partition: after the shuffle the pairs are the consecutive
\* positions of the list, every agent of the population is in exactly one
\* pair, and once all pairs are paid every agent has received exactly one
\* payoff.
PairingPartition ==
    pc = "play" =>
        /\ Len(agents) = POPULATION_SIZE
        /\ \A k \in 1 .. Len(pairs) :
              pairs[k] = <<agents[2 * k - 1], agents[2 * k]>>
        /\ \A a \in AgentSet :
              Cardinality({<<k, side>> \in (1 .. Len(pairs)) \X {1, 2} :
                              pairs[k][side] = a}) = 1
        /\ \A a \in AgentSet : paid[a] <= 1
        /\ pairIdx > Len(pairs) => \A a \in AgentSet : paid[a] = 1

PairingPartitionWitness ==
    /\ pc = "play"
    /\ round = 1
    /\ Len(pairs) = 2
    /\ pairIdx > Len(pairs)

\* C4  Population conservation: once the population is built, the Safe and
\* the Risky agents together number POPULATION_SIZE, the list holds
\* POPULATION_SIZE distinct agents and every strategy is Safe (1) or
\* Risky (0).
PopulationConservation ==
    pc # "entry" =>
        /\ SafeCount + RiskyCount = POPULATION_SIZE
        /\ Len(agents) = POPULATION_SIZE
        /\ Cardinality(AgentSet) = POPULATION_SIZE
        /\ \A a \in AgentSet : strategy[a] \in {0, 1}

PopulationConservationWitness ==
    /\ pc = "learn"
    /\ round = 1
    /\ learnIdx > 1
    /\ SafeCount # Len(safe_agents)

\* C5  For valid inputs the returned value is the number of Safe agents
\* after the last learning step over POPULATION_SIZE, and lies in [0, 1].
ResultIsSafeFraction ==
    pc = "done" =>
        /\ result.num = SafeCount
        /\ result.den = POPULATION_SIZE
        /\ 0 <= result.num
        /\ result.num <= result.den

ResultIsSafeFractionWitness ==
    /\ pc = "done"
    /\ round = ROUNDS_PER_SIM
    /\ 0 < result.num
    /\ result.num < result.den

\* C6  With audit_prob = 0 no pair is audited and no fine or reputation
\* loss is subtracted (a paid agent holds PROFIT if Risky, PROFIT -
\* COST_SAFE if Safe, so every paid Risky agent holds more than every paid
\* Safe one), and no step of the cycle raises the number of Safe agents.
NoFineAtZero ==
    (audit_prob = 0 /\ pc = "play") =>
        /\ \A k \in DOMAIN audits : ~audits[k]
        /\ \A a \in AgentSet :
              wealth[a] = IF paid[a] = 0 THEN 0
                          ELSE IF strategy[a] = 0 THEN PROFIT
                          ELSE PROFIT - COST_SAFE
        /\ \A a, b \in AgentSet :
              (paid[a] = 1 /\ paid[b] = 1 /\ strategy[a] = 0 /\ strategy[b] = 1)
              => wealth[a] > wealth[b]

SafeNeverIncreasesAtZero ==
    /\ []NoFineAtZero
    /\ [][(audit_prob = 0 /\ pc # "entry") => SafeCount' <= SafeCount]_vars

SafeNeverIncreasesAtZeroWitness ==
    /\ audit_prob = 0
    /\ pc = "done"
    /\ POPULATION_SIZE > 2
    /\ SafeCount < POPULATION_SIZE \div 2
    /\ SafeCount > 0

\* C7  Regime ordering: the LLC and the Partnership cycle run side by side
\* on the same shuffles, audit draws and learning draws, Partnership with
\* the larger total penalty: the Safe fraction Partnership returns is at
\* least the one LLC returns.
RegimeOrdering ==
    (pc = "done" /\ twin.on) =>
        twin.result.num * result.den >= result.num * twin.result.den

\* C9  An odd POPULATION_SIZE is rejected at construction: no round starts
\* and no result is returned for it.
OddPopulationRejected ==
    POPULATION_SIZE % 2 = 1 =>
        /\ pc \in {"entry", "reset"}
        /\ round = 0
        /\ result = NoResult

\* C10  An audit probability outside [0, 1] is rejected at the entry of the
\* cycle: the population is never built and no round runs with it.
OutOfRangeProbabilityRejected ==
    (audit_prob < 0 \/ audit_prob > ONE) =>
        /\ pc = "entry"
        /\ agents = <<>>

\* C11  Every cycle terminates after exactly ROUNDS_PER_SIM rounds: the
\* loop is left and the result returned only when ROUNDS_PER_SIM rounds are
\* complete, a new round starts whenever fewer are complete (also with all
\* agents on one strategy), and the cycle does return.
ExactlyAllRounds ==
    /\ [](pc \in {"return", "done"} => round = ROUNDS_PER_SIM)
    /\ [][(pc = "learn" /\ pc' # "learn")
           => /\ round' = round + 1
              /\ (round' < ROUNDS_PER_SIM => pc' = "reset")]_vars
    /\ <>(pc = "done")

ExactlyAllRoundsWitness ==
    /\ pc = "done"
    /\ round = ROUNDS_PER_SIM
    /\ safe_agents = <<>>
    /\ SafeCount = 0

\* ---- the learning step as seen from the partition it started with
InList(a, list) == \E k \in 1 .. Len(list) : list[k] = a
StartStrategy(a) == IF InList(a, safe_agents) THEN 1 ELSE 0
StartMeanSafe == MeanWealth(safe_agents, wealth)
StartMeanRisky == MeanWealth(risky_agents, wealth)
Switched == {a \in AgentSet : strategy[a] # StartStrategy(a)}
AllSafe == agents # <<>> /\ SafeCount = Len(agents)

\* C13  Learning direction: within a learning step, an agent that has
\* changed strategy went Safe -> Risky and the Risky mean (0 if no Risky
\* agent) is strictly greater, or went Risky -> Safe and the Safe mean is
\* strictly greater; with equal means nobody has changed; never both
\* directions in one step.
LearningDirection ==
    pc = "learn" =>
        /\ \A a \in Switched :
              \/ /\ StartStrategy(a) = 1
                 /\ strategy[a] = 0
                 /\ StartMeanRisky.num * StartMeanSafe.den
                        > StartMeanSafe.num * StartMeanRisky.den
              \/ /\ StartStrategy(a) = 0
                 /\ strategy[a] = 1
                 /\ StartMeanSafe.num * StartMeanRisky.den
                        > StartMeanRisky.num * StartMeanSafe.den
        /\ \A a, b \in Switched : StartStrategy(a) = StartStrategy(b)

LearningDirectionWitness ==
    /\ pc = "learn"
    /\ safe_agents # <<>>
    /\ \E a \in Switched : StartStrategy(a) = 0

\* C14  No wealth carry-over: wealth is 0 when the pairing of a round
\* begins and for every agent not yet paid, and the wealth of a paid agent
\* is exactly the payoff of its pair in this round.
NoWealthCarryOver ==
    /\ pc = "shuffle" => \A a \in AgentSet : wealth[a] = 0
    /\ pc = "play" =>
          /\ \A a \in AgentSet : paid[a] = 0 => wealth[a] = 0
          /\ \A k \in PaidPairs :
                <<wealth[pairs[k][1]], wealth[pairs[k][2]]>> =
                    Payoffs(strategy[pairs[k][1]], strategy[pairs[k][2]],
                            audits[k], fine_amount, reputation_loss,
                            liability_model)

NoWealthCarryOverWitness ==
    /\ pc = "play"
    /\ round = 1
    /\ Len(pairs) = 2
    /\ pairIdx > Len(pairs)
    /\ \E k \in PaidPairs : audits[k] /\ strategy[pairs[k][1]] = 0
    /\ \E k \in PaidPairs : ~audits[k]

\* C15  Strategy frame: the wealth reset, the shuffle, the payoffs and the
\* return leave every strategy unchanged; a step of the learning loop
\* changes only an agent that still has the strategy it started the
\* learning step with (at most one change per agent per round).
StrategyFrame ==
    [][/\ pc \in {"reset", "shuffle", "play", "return"} => strategy' = strategy
       /\ pc = "learn" =>
             \A a \in AgentSet :
                 strategy'[a] # strategy[a] => strategy[a] = StartStrategy(a)]_vars

StrategyFrameWitness ==
    /\ pc = "learn"
    /\ round = 1
    /\ Cardinality(Switched) = 2
    /\ learnIdx <= PendingDraws

\* C16  Partnership compounding: in an audited pair of two Risky agents each
\* member's payoff is PROFIT - 2 * (fine + reputation loss) under
\* Partnership and PROFIT - (fine + reputation loss) under the individual
\* model.
PartnershipCompounding ==
    pc = "play" =>
        \A k \in PaidPairs :
            (audits[k] /\ strategy[pairs[k][1]] = 0 /\ strategy[pairs[k][2]] = 0)
            => \A side \in {1, 2} :
                   wealth[pairs[k][side]] =
                       IF liability_model = "Partnership"
                       THEN PROFIT - 2 * Penalty
                       ELSE PROFIT - Penalty

PartnershipCompoundingWitness ==
    /\ pc = "play"
    /\ liability_model = "Partnership"
    /\ \E k \in PaidPairs :
          audits[k] /\ strategy[pairs[k][1]] = 0 /\ strategy[pairs[k][2]] = 0

\* C17  Round ordering: reset, then shuffle and pairing, then the payoff of
\* every pair, then the learning step, round after round; the learning
\* step starts only when every agent is paid, it ends every round (the last
\* one too, before the result is computed), and nothing between its end and
\* the next pairing touches the strategies it produced.
RoundOrdering ==
    /\ [](pc = "learn" => \A a \in AgentSet : paid[a] = 1)
    /\ [][
         /\ pc = "reset" => pc' = "shuffle"
         /\ pc = "shuffle" => (pc' = "play" /\ strategy' = strategy)
         /\ pc = "play" => pc' \in {"play", "learn"}
         /\ (pc = "play" /\ pc' = "learn") => pairIdx > Len(pairs)
         /\ pc # "learn" => round' = round
         /\ (pc = "learn" /\ pc' # "learn")
               => /\ round' = round + 1
                  /\ pc' = IF round' < ROUNDS_PER_SIM THEN "reset" ELSE "return"
                  /\ strategy' = strategy
         /\ pc' = "return" => pc = "learn"
         /\ pc' = "reset" => (pc \in {"entry", "learn"} /\ round' < ROUNDS_PER_SIM)
         /\ pc = "return" => (pc' = "done" /\ result'.num = SafeCount)
       ]_vars

RoundOrderingWitness ==
    /\ pc = "return"
    /\ POPULATION_SIZE > 2
    /\ Switched # {}

\* C18  Initial state: after initialization and before the first round the
\* list holds POPULATION_SIZE agents, half of them Safe and half Risky,
\* each with wealth 0.
BalancedInitialState ==
    (pc = "reset" /\ round = 0) =>
        /\ Len(agents) = POPULATION_SIZE
        /\ 2 * SafeCount = POPULATION_SIZE
        /\ 2 * RiskyCount = POPULATION_SIZE
        /\ \A a \in AgentSet : wealth[a] = 0

BalancedInitialStateWitness ==
    /\ pc = "reset"
    /\ round = 0
    /\ POPULATION_SIZE > 2
    /\ strategy[agents[1]] = 0

\* C19 (as claimed)  A Safe agent receives PROFIT - COST_SAFE in every
\* round, under either model, whatever its partner and whether or not the
\* pair is audited.
SafeNeverPenalized ==
    pc = "play" =>
        \A a \in AgentSet :
            (paid[a] = 1 /\ strategy[a] = 1) => wealth[a] = PROFIT - COST_SAFE

\* C19 (amended)  A Safe agent receives PROFIT - COST_SAFE, except under
\* Partnership in an audited pair with a Risky partner, where it receives
\* PROFIT - COST_SAFE - (fine + reputation loss).
SafePenalizedOnlyJointly ==
    pc = "play" =>
        \A k \in PaidPairs : \A side \in {1, 2} :
            strategy[pairs[k][side]] = 1 =>
                wealth[pairs[k][side]] =
                    IF /\ liability_model = "Partnership"
                       /\ audits[k]
                       /\ strategy[pairs[k][3 - side]] = 0
                    THEN PROFIT - COST_SAFE - Penalty
                    ELSE PROFIT - COST_SAFE

SafePenalizedOnlyJointlyWitness ==
    /\ pc = "play"
    /\ liability_model = "Partnership"
    /\ \E k \in PaidPairs :
          audits[k] /\ strategy[pairs[k][1]] = 1 /\ strategy[pairs[k][2]] = 0

\* C20  All-Safe is absorbing: once every agent is Safe, every agent is
\* Safe after every later step of the cycle, and the cycle returns 1.
AllSafeAbsorbing ==
    /\ [][AllSafe => AllSafe']_vars
    /\ []((pc = "done" /\ AllSafe) => result.num = result.den)

AllSafeAbsorbingWitness ==
    /\ pc = "done"
    /\ round = ROUNDS_PER_SIM
    /\ risky_agents = <<>>
    /\ AllSafe

\* C12  Invocations are independent: the result of an invocation does not
\* depend on the invocations before it, so a later call with the same
\* arguments returns what the first call (made with no call before it)
\* returned.
IndependentInvocations ==
    (pc = "done" /\ returned # <<>>) => result = returned[1]

====
